---- MODULE Spec2Model ----
(***************************************************************************)
(* A model of the multi-agent content generation pipeline:                 *)
(*   WorkflowOrchestrator (src/src/orchestrator/workflow.py) driving        *)
(*   ParserAgent, QuestionGeneratorAgent, ComparisonAgent and WriterAgent,  *)
(*   with the ContentBlocks helpers.                                        *)
(*                                                                         *)
(* Text.  A Python str is modelled as a sequence of atoms.  Every str that  *)
(* is data (a field of a raw record or of a product) is a sequence of its   *)
(* characters; a literal chunk of an f-string template is one atom.         *)
(* Characters outside ASCII are written by code point, e.g. "U+20B9" (the   *)
(* rupee sign).  A list of str is a sequence of texts.                      *)
(*                                                                         *)
(* Optional values.  Python's None is the empty sequence and a present      *)
(* value v is the one-element sequence <<v>>.                               *)
(***************************************************************************)
EXTENDS Integers, Sequences, FiniteSets, TLC

VARIABLES
    state,                \* WorkflowOrchestrator.state
    pc,                   \* position of execute_pipeline: "idle" or the stage about to run
    raw_data,             \* argument of the running execute_pipeline call (None when none runs)
    product,              \* self.product
    questions,            \* self.questions
    product_b,            \* self.product_b
    comparison_table,     \* self.comparison_table
    comparison_summary,   \* self.comparison_summary
    outputs,              \* self.outputs
    outcome,              \* what the latest call gave its caller: nothing yet, a return, a raise
    history,              \* the states logged by _transition_state during the latest call
    runs,                 \* number of execute_pipeline calls made on this instance
    faq_pc,               \* position inside WriterAgent.assemble_faq_page
    faq_questions,        \* its argument `questions`
    faq_product,          \* its argument `product`
    selected_questions,   \* its local selected_questions
    categories_seen,      \* its local categories_seen
    faq_i,                \* index of the running for loop
    faq_page,             \* its return value (None until it returns)
    cmp_product_a,        \* argument of a direct ComparisonAgent.execute call
    cmp_result,           \* its result (None until it returns or raises)
    parse_raw,            \* argument of a direct ParserAgent.execute call
    parse_result,         \* its result (None until it returns or raises)
    gen_questions,        \* what QuestionGeneratorAgent.execute returned for that product
    usage_block           \* what ContentBlocks.extract_usage_block returned for it

vars == <<state, pc, raw_data, product, questions, product_b, comparison_table,
          comparison_summary, outputs, outcome, history, runs,
          faq_pc, faq_questions, faq_product, selected_questions, categories_seen,
          faq_i, faq_page, cmp_product_a, cmp_result,
          parse_raw, parse_result, gen_questions, usage_block>>

pipeline_vars == <<state, pc, raw_data, product, questions, product_b, comparison_table,
                   comparison_summary, outputs, outcome, history, runs>>

faq_vars == <<faq_pc, faq_questions, faq_product, selected_questions, categories_seen,
              faq_i, faq_page>>

cmp_vars == <<cmp_product_a, cmp_result>>

unit_vars == <<parse_raw, parse_result, gen_questions, usage_block>>

-----------------------------------------------------------------------------
(* Bounds of the model *)

\* calls of execute_pipeline made on one orchestrator instance
MaxRuns == 2
\* required keys a raw record may lack
MaxMissing == 1
\* length of the price strings given to a direct ComparisonAgent.execute call
MaxPriceLen == 3
\* length of the question catalogs given to a direct assemble_faq_page call
MaxCatalog == 6
\* length of the comma-delimited strings given to a direct ParserAgent.execute call
MaxRawLen == 3
\* length of the lists given to it
MaxItems == 2
\* number of words of the usage instructions given to it
MaxWords == 3

-----------------------------------------------------------------------------
(* Optional values, results of calls, exceptions *)

None == <<>>

Some(v) == <<v>>

NoError == [type |-> "none", arg |-> <<>>]

\* KeyError(key): raised by dict subscription with an absent key
KeyError(k) == [type |-> "KeyError", arg |-> <<k>>]

\* ValueError("invalid literal for int() with base 10: <t>")
ValueError(t) == [type |-> "ValueError", arg |-> t]

Ok(v) == [ok |-> TRUE, value |-> Some(v), error |-> NoError]

Raise(e) == [ok |-> FALSE, value |-> None, error |-> e]

-----------------------------------------------------------------------------
(* Python str operations on texts *)

\* str.isdecimal for one character: the ASCII digits
DecimalDigits == {"0", "1", "2", "3", "4", "5", "6", "7", "8", "9"}

\* str.isdigit for one character: decimal digits and the characters of
\* Numeric_Type=Digit, such as U+00B9 SUPERSCRIPT ONE
IsDigit(c) == c \in DecimalDigits \cup {"U+00B9"}

DigitValue(c) ==
    CASE c = "0" -> 0 [] c = "1" -> 1 [] c = "2" -> 2 [] c = "3" -> 3 [] c = "4" -> 4
      [] c = "5" -> 5 [] c = "6" -> 6 [] c = "7" -> 7 [] c = "8" -> 8 [] c = "9" -> 9

RECURSIVE DecimalValue(_)
DecimalValue(t) ==
    IF t = <<>> THEN 0
    ELSE 10 * DecimalValue(SubSeq(t, 1, Len(t) - 1)) + DigitValue(t[Len(t)])

\* int(s) for a str s: s must be non-empty and made of decimal digits only
PyInt(t) ==
    IF t # <<>> /\ \A i \in 1..Len(t) : t[i] \in DecimalDigits
    THEN Ok(DecimalValue(t))
    ELSE Raise(ValueError(t))

IsSpace(c) == c = " "

RECURSIVE LStrip(_)
LStrip(t) == IF t # <<>> /\ IsSpace(t[1]) THEN LStrip(Tail(t)) ELSE t

RECURSIVE RStrip(_)
RStrip(t) ==
    IF t # <<>> /\ IsSpace(t[Len(t)]) THEN RStrip(SubSeq(t, 1, Len(t) - 1)) ELSE t

\* str.strip()
Strip(t) == RStrip(LStrip(t))

\* str.split(","): the pieces between commas, empty pieces kept
RECURSIVE SplitComma(_)
SplitComma(t) ==
    IF \A i \in 1..Len(t) : t[i] # ","
    THEN <<t>>
    ELSE LET k == CHOOSE i \in 1..Len(t) : t[i] = "," /\ \A j \in 1..(i - 1) : t[j] # ","
         IN <<SubSeq(t, 1, k - 1)>> \o SplitComma(SubSeq(t, k + 1, Len(t)))

\* sep.join(items)
RECURSIVE Join(_, _)
Join(sep, items) ==
    IF items = <<>> THEN <<>>
    ELSE IF Len(items) = 1 THEN items[1]
    ELSE items[1] \o sep \o Join(sep, Tail(items))

UpperLetters ==
    <<"A", "B", "C", "D", "E", "F", "G", "H", "I", "J", "K", "L", "M",
      "N", "O", "P", "Q", "R", "S", "T", "U", "V", "W", "X", "Y", "Z">>

LowerLetters ==
    <<"a", "b", "c", "d", "e", "f", "g", "h", "i", "j", "k", "l", "m",
      "n", "o", "p", "q", "r", "s", "t", "u", "v", "w", "x", "y", "z">>

\* str.lower() for one character; a literal chunk of a template is lower case
\* wherever the code lowers it
LowerAtom(a) ==
    IF \E i \in 1..Len(UpperLetters) : UpperLetters[i] = a
    THEN LowerLetters[CHOOSE i \in 1..Len(UpperLetters) : UpperLetters[i] = a]
    ELSE a

\* str.lower()
Lower(t) == [i \in 1..Len(t) |-> LowerAtom(t[i])]

-----------------------------------------------------------------------------
(* ParserAgent *)

\* the keyword arguments of ProductModel(...) in evaluation order
FieldOrder ==
    <<"name", "concentration", "skin_type", "key_ingredients", "benefits",
      "how_to_use", "side_effects", "price">>

RequiredKeys == {FieldOrder[i] : i \in 1..Len(FieldOrder)}

\* a raw multi-value field: a comma-delimited str or a list of str
RawStr(t) == [kind |-> "str", text |-> t, items |-> <<>>]

RawList(l) == [kind |-> "list", text |-> <<>>, items |-> l]

\* value if isinstance(value, list) else [s.strip() for s in value.split(",")]
NormalizeList(v) ==
    IF v.kind = "list" THEN v.items
    ELSE LET pieces == SplitComma(v.text)
         IN [i \in 1..Len(pieces) |-> Strip(pieces[i])]

MissingIndexes(raw) == {i \in 1..Len(FieldOrder) : FieldOrder[i] \notin DOMAIN raw}

FirstMissingKey(raw) ==
    FieldOrder[CHOOSE i \in MissingIndexes(raw) : \A j \in MissingIndexes(raw) : i <= j]

\* a parser that reads the record with dict.get: an absent key gives None and
\* the model's validation fails without naming the key
ParserAgent_execute_get(raw) ==
    IF MissingIndexes(raw) # {}
    THEN Raise([type |-> "ValidationError", arg |-> <<>>])
    ELSE Ok([name            |-> raw["name"],
             concentration   |-> raw["concentration"],
             skin_type       |-> NormalizeList(raw["skin_type"]),
             key_ingredients |-> NormalizeList(raw["key_ingredients"]),
             benefits        |-> NormalizeList(raw["benefits"]),
             how_to_use      |-> raw["how_to_use"],
             side_effects    |-> raw["side_effects"],
             price           |-> raw["price"]])

ParserAgent_execute(raw) ==
    IF MissingIndexes(raw) # {}
    THEN Raise(KeyError(FirstMissingKey(raw)))
    ELSE Ok([name            |-> raw["name"],
             concentration   |-> raw["concentration"],
             skin_type       |-> NormalizeList(raw["skin_type"]),
             key_ingredients |-> NormalizeList(raw["key_ingredients"]),
             benefits        |-> NormalizeList(raw["benefits"]),
             how_to_use      |-> raw["how_to_use"],
             side_effects    |-> raw["side_effects"],
             price           |-> raw["price"]])

-----------------------------------------------------------------------------
(* QuestionGeneratorAgent *)

QuestionCategory ==
    {"Informational", "Safety", "Usage", "Purchase", "Comparison", "Ingredients"}

QuestionModel(q, a, c) == [question |-> q, answer |-> a, category |-> c]

\* a generator that leaves out the question of the Comparison category
QuestionGeneratorAgent_execute_no_comparison(p) ==
    LET skin == Lower(Join(<<" and ">>, p.skin_type))
    IN <<
      QuestionModel(<<"What is ">> \o p.name \o <<"?">>,
                    p.name \o <<" is a skincare serum with ">> \o p.concentration
                      \o <<", designed for ">> \o skin \o <<" skin types.">>,
                    "Informational"),
      QuestionModel(<<"What is the concentration of active ingredient in ">>
                      \o p.name \o <<"?">>,
                    <<"The concentration is ">> \o p.concentration \o <<".">>,
                    "Informational"),
      QuestionModel(<<"What skin types is this product suitable for?">>,
                    <<"This product is suitable for ">> \o skin \o <<" skin types.">>,
                    "Informational"),
      QuestionModel(<<"What are the key ingredients?">>,
                    <<"The key ingredients are ">> \o Join(<<", ">>, p.key_ingredients)
                      \o <<".">>,
                    "Ingredients"),
      QuestionModel(<<"Does ">> \o p.name \o <<" contain Hyaluronic Acid?">>,
                    <<"Yes, ">> \o p.name
                      \o <<" contains Hyaluronic Acid as one of its key ingredients.">>,
                    "Ingredients"),
      QuestionModel(<<"How do I use this product?">>, p.how_to_use, "Usage"),
      QuestionModel(<<"When should I apply this serum?">>,
                    <<"Apply in the morning before sunscreen for best results.">>,
                    "Usage"),
      QuestionModel(<<"How many drops should I use?">>,
                    <<"Use 2-3 drops for each application.">>,
                    "Usage"),
      QuestionModel(<<"Are there any side effects?">>, p.side_effects, "Safety"),
      QuestionModel(<<"Is this safe for sensitive skin?">>,
                    p.side_effects \o <<". A patch test is recommended.">>,
                    "Safety"),
      QuestionModel(<<"Can I use this product daily?">>,
                    <<"Yes, this product can be used daily in your morning routine.">>,
                    "Safety"),
      QuestionModel(<<"What is the price?">>,
                    <<"The price is ">> \o p.price \o <<".">>,
                    "Purchase"),
      QuestionModel(<<"Is this product affordable?">>,
                    <<"At ">> \o p.price
                      \o <<", this product is in the mid-range category for vitamin C serums.">>,
                    "Purchase"),
      QuestionModel(<<"What benefits does ">> \o p.name \o <<" provide?">>,
                    <<"The main benefits are ">>
                      \o Lower(Join(<<" and ">>, p.benefits)) \o <<".">>,
                    "Informational"),
      QuestionModel(<<"Can this help with dark spots?">>,
                    <<"Yes, this serum is designed to help fade dark spots as one of its primary benefits.">>,
                    "Informational")
    >>

QuestionGeneratorAgent_execute(p) ==
    LET skin == Lower(Join(<<" and ">>, p.skin_type))
    IN <<
      QuestionModel(<<"What is ">> \o p.name \o <<"?">>,
                    p.name \o <<" is a skincare serum with ">> \o p.concentration
                      \o <<", designed for ">> \o skin \o <<" skin types.">>,
                    "Informational"),
      QuestionModel(<<"What is the concentration of active ingredient in ">>
                      \o p.name \o <<"?">>,
                    <<"The concentration is ">> \o p.concentration \o <<".">>,
                    "Informational"),
      QuestionModel(<<"What skin types is this product suitable for?">>,
                    <<"This product is suitable for ">> \o skin \o <<" skin types.">>,
                    "Informational"),
      QuestionModel(<<"What are the key ingredients?">>,
                    <<"The key ingredients are ">> \o Join(<<", ">>, p.key_ingredients)
                      \o <<".">>,
                    "Ingredients"),
      QuestionModel(<<"Does ">> \o p.name \o <<" contain Hyaluronic Acid?">>,
                    <<"Yes, ">> \o p.name
                      \o <<" contains Hyaluronic Acid as one of its key ingredients.">>,
                    "Ingredients"),
      QuestionModel(<<"How do I use this product?">>, p.how_to_use, "Usage"),
      QuestionModel(<<"When should I apply this serum?">>,
                    <<"Apply in the morning before sunscreen for best results.">>,
                    "Usage"),
      QuestionModel(<<"How many drops should I use?">>,
                    <<"Use 2-3 drops for each application.">>,
                    "Usage"),
      QuestionModel(<<"Are there any side effects?">>, p.side_effects, "Safety"),
      QuestionModel(<<"Is this safe for sensitive skin?">>,
                    p.side_effects \o <<". A patch test is recommended.">>,
                    "Safety"),
      QuestionModel(<<"Can I use this product daily?">>,
                    <<"Yes, this product can be used daily in your morning routine.">>,
                    "Safety"),
      QuestionModel(<<"What is the price?">>,
                    <<"The price is ">> \o p.price \o <<".">>,
                    "Purchase"),
      QuestionModel(<<"Is this product affordable?">>,
                    <<"At ">> \o p.price
                      \o <<", this product is in the mid-range category for vitamin C serums.">>,
                    "Purchase"),
      QuestionModel(<<"What makes this different from other vitamin C serums?">>,
                    <<"This serum combines ">> \o p.concentration \o <<" with ">>
                      \o Join(<<" and ">>, p.key_ingredients)
                      \o <<", specifically formulated for ">> \o skin \o <<" skin types.">>,
                    "Comparison"),
      QuestionModel(<<"What benefits does ">> \o p.name \o <<" provide?">>,
                    <<"The main benefits are ">>
                      \o Lower(Join(<<" and ">>, p.benefits)) \o <<".">>,
                    "Informational"),
      QuestionModel(<<"Can this help with dark spots?">>,
                    <<"Yes, this serum is designed to help fade dark spots as one of its primary benefits.">>,
                    "Informational")
    >>

-----------------------------------------------------------------------------
(* ContentBlocks *)

\* `pat in t` for two str
Contains(t, pat) ==
    \E i \in 1..(Len(t) - Len(pat) + 1) : SubSeq(t, i, i + Len(pat) - 1) = pat

\* ''.join(filter(str.isdigit, price_str))
DigitsOf(t) == SelectSeq(t, IsDigit)

\* ''.join(filter(lambda x: not x.isdigit(), price_str))
NonDigitsOf(t) == SelectSeq(t, LAMBDA c : ~IsDigit(c))

BudgetBelow == 500

MidRangeBelow == 1000

PriceRange(n) ==
    IF n < BudgetBelow THEN "Budget" ELSE IF n < MidRangeBelow THEN "Mid-range" ELSE "Premium"

\* a parser that reads a price without digits as 0
ContentBlocks_parse_price_block_zero(price_str) ==
    LET numeric_value == IF DigitsOf(price_str) = <<>> THEN Ok(0)
                         ELSE PyInt(DigitsOf(price_str))
    IN IF ~numeric_value.ok
       THEN Raise(numeric_value.error)
       ELSE Ok([display_price |-> price_str,
                numeric_value |-> numeric_value.value[1],
                currency      |-> Strip(NonDigitsOf(price_str)),
                price_range   |-> PriceRange(numeric_value.value[1])])

ContentBlocks_parse_price_block(price_str) ==
    LET numeric_value == PyInt(DigitsOf(price_str))
    IN IF ~numeric_value.ok
       THEN Raise(numeric_value.error)
       ELSE Ok([display_price |-> price_str,
                numeric_value |-> numeric_value.value[1],
                currency      |-> Strip(NonDigitsOf(price_str)),
                price_range   |-> PriceRange(numeric_value.value[1])])

\* set(list_of_str)
ToSet(l) == {l[i] : i \in 1..Len(l)}

\* list(a_set): the elements once each, in the set's iteration order, which
\* depends on the interpreter's string hashing: every order is possible
ListsOf(S) ==
    {l \in [1..Cardinality(S) -> S] : \A x \in S : \E i \in 1..Cardinality(S) : l[i] = x}

\* the dicts that compare_ingredients_block may return
ContentBlocks_compare_ingredients_block(product_a, b) ==
    LET set_a == ToSet(product_a.key_ingredients)
        set_b == ToSet(b.key_ingredients)
    IN {[common |-> c, unique_to_a |-> ua, unique_to_b |-> ub] :
           c \in ListsOf(set_a \cap set_b),
           ua \in ListsOf(set_a \ set_b),
           ub \in ListsOf(set_b \ set_a)}

ContentBlocks_generate_benefits_block(p) ==
    [i \in 1..Len(p.benefits) |->
        [benefit     |-> p.benefits[i],
         description |-> <<"Helps with ">> \o Lower(p.benefits[i])
                           \o <<" for healthier-looking skin">>]]

\* str.split(): the maximal runs of non-whitespace characters
RECURSIVE SplitWhitespace(_)
SplitWhitespace(t) ==
    LET s == LStrip(t)
    IN IF s = <<>> THEN <<>>
       ELSE IF \A i \in 1..Len(s) : ~IsSpace(s[i]) THEN <<s>>
       ELSE LET k == CHOOSE i \in 1..Len(s) :
                        IsSpace(s[i]) /\ \A j \in 1..(i - 1) : ~IsSpace(s[j])
            IN <<SubSeq(s, 1, k - 1)>> \o SplitWhitespace(SubSeq(s, k + 1, Len(s)))

\* word.replace(EN DASH, '-').replace(EM DASH, '-')
ReplaceDashes(w) ==
    [i \in 1..Len(w) |-> IF w[i] \in {"U+2013", "U+2014"} THEN "-" ELSE w[i]]

\* word.split('-')[0]
BeforeFirstHyphen(w) ==
    IF \A i \in 1..Len(w) : w[i] # "-" THEN w
    ELSE SubSeq(w, 1, (CHOOSE i \in 1..Len(w) :
                          w[i] = "-" /\ \A j \in 1..(i - 1) : w[j] # "-") - 1)

\* str.isdigit(): non-empty and every character a digit
StrIsDigit(w) == w # <<>> /\ \A i \in 1..Len(w) : IsDigit(w[i])

ContentBlocks_extract_usage_block(p) ==
    LET instruction == p.how_to_use
        low == Lower(instruction)
        drops == SelectSeq(SplitWhitespace(instruction),
                           LAMBDA word : StrIsDigit(BeforeFirstHyphen(ReplaceDashes(word))))
    IN [instruction |-> instruction,
        frequency   |-> IF Contains(low, <<"m", "o", "r", "n", "i", "n", "g">>)
                        THEN <<"Daily (AM)">> ELSE <<"As directed">>,
        timing      |-> IF Contains(low, <<"b", "e", "f", "o", "r", "e", " ",
                                          "s", "u", "n", "s", "c", "r", "e", "e", "n">>)
                        THEN <<"Before sunscreen">> ELSE <<"As needed">>,
        application_method |->
            IF Contains(low, <<"d", "r", "o", "p", "s">>) /\ drops # <<>>
            THEN <<"Apply ">> \o drops[1] \o <<" drops">>
            ELSE <<"Topical application">>]

ContentBlocks_generate_safety_block(p) ==
    LET low == Lower(p.side_effects)
        sensitive == IF Contains(low, <<"s", "e", "n", "s", "i", "t", "i", "v", "e">>)
                     THEN << <<"Patch test recommended for sensitive skin">>,
                             <<"Start with lower frequency if irritation occurs">> >>
                     ELSE <<>>
        tingling == IF Contains(low, <<"t", "i", "n", "g", "l", "i", "n", "g">>)
                    THEN << <<"Mild tingling is normal and should subside">> >>
                    ELSE <<>>
        found == sensitive \o tingling
    IN [side_effects        |-> p.side_effects,
        suitable_skin_types |-> p.skin_type,
        precautions         |-> IF found = <<>>
                                THEN << <<"Follow usage instructions as directed">> >>
                                ELSE found]

-----------------------------------------------------------------------------
(* ComparisonAgent *)

\* The price literal of Product B is stored in the source file as the six
\* characters U+00E2 U+201A U+00B9 "8" "9" "9".  U+00B9 (SUPERSCRIPT ONE)
\* satisfies str.isdigit and is no decimal digit.
ComparisonAgent_create_fictional_product_b(product_a) ==
    [name            |-> <<"R", "a", "d", "i", "a", "n", "t", "G", "l", "o", "w",
                          " ", "N", "i", "a", "c", "i", "n", "a", "m", "i", "d",
                          "e", " ", "S", "e", "r", "u", "m">>,
     concentration   |-> <<"5", "%", " ", "N", "i", "a", "c", "i", "n", "a", "m",
                          "i", "d", "e">>,
     skin_type       |-> << <<"D", "r", "y">>,
                            <<"S", "e", "n", "s", "i", "t", "i", "v", "e">> >>,
     key_ingredients |-> << <<"N", "i", "a", "c", "i", "n", "a", "m", "i", "d", "e">>,
                            <<"H", "y", "a", "l", "u", "r", "o", "n", "i", "c", " ",
                             "A", "c", "i", "d">>,
                            <<"Z", "i", "n", "c">> >>,
     benefits        |-> << <<"P", "o", "r", "e", " ", "m", "i", "n", "i", "m", "i",
                             "z", "i", "n", "g">>,
                            <<"R", "e", "d", "u", "c", "e", "s", " ", "r", "e", "d",
                             "n", "e", "s", "s">> >>,
     how_to_use      |-> <<"A", "p", "p", "l", "y", " ", "3", "-", "4", " ", "d",
                          "r", "o", "p", "s", " ", "i", "n", " ", "t", "h", "e",
                          " ", "e", "v", "e", "n", "i", "n", "g", " ", "a", "f",
                          "t", "e", "r", " ", "c", "l", "e", "a", "n", "s", "i",
                          "n", "g">>,
     side_effects    |-> <<"G", "e", "n", "e", "r", "a", "l", "l", "y", " ", "w",
                          "e", "l", "l", "-", "t", "o", "l", "e", "r", "a", "t",
                          "e", "d">>,
     price           |-> <<"U+00E2", "U+201A", "U+00B9", "8", "9", "9">>]

ComparisonRow(attribute, a, b, winner) ==
    [attribute |-> attribute, product_a_value |-> a, product_b_value |-> b,
     winner |-> winner]

\* execute(product_a), with ingredient_comparison the dict that the call of
\* compare_ingredients_block returned
ComparisonAgent_execute(product_a, ingredient_comparison) ==
    LET b == ComparisonAgent_create_fictional_product_b(product_a)
        common == ingredient_comparison.common
        common_text == IF common # <<>> THEN Join(<<", ">>, common) ELSE <<"None">>
        price_a == ContentBlocks_parse_price_block(product_a.price)
        price_b == ContentBlocks_parse_price_block(b.price)
    IN IF ~price_a.ok THEN Raise(price_a.error)
       ELSE IF ~price_b.ok THEN Raise(price_b.error)
       ELSE Ok([
         product_b |-> b,
         comparison_table |-> <<
           ComparisonRow("Product Name", product_a.name, b.name, None),
           ComparisonRow("Active Ingredient", product_a.concentration,
                         b.concentration, None),
           ComparisonRow("Suitable Skin Types", Join(<<", ">>, product_a.skin_type),
                         Join(<<", ">>, b.skin_type), None),
           ComparisonRow("Key Ingredients", Join(<<", ">>, product_a.key_ingredients),
                         Join(<<", ">>, b.key_ingredients), None),
           ComparisonRow("Common Ingredients", common_text, common_text, None),
           ComparisonRow("Primary Benefits", Join(<<", ">>, product_a.benefits),
                         Join(<<", ">>, b.benefits), None),
           ComparisonRow("How to Use", product_a.how_to_use, b.how_to_use, None),
           ComparisonRow("Side Effects", product_a.side_effects, b.side_effects,
                         Some("Product B")),
           ComparisonRow("Price", product_a.price, b.price,
                         IF price_a.value[1].numeric_value < price_b.value[1].numeric_value
                         THEN Some("Product A") ELSE Some("Product B"))
         >>,
         summary |->
           product_a.name \o <<" focuses on ">>
             \o Lower(Join(<<" and ">>, product_a.benefits))
             \o <<" with ">> \o product_a.concentration \o <<", while ">>
             \o b.name \o <<" targets ">>
             \o Lower(Join(<<" and ">>, b.benefits))
             \o <<" using ">> \o b.concentration \o <<". Both products contain ">>
             \o (IF common # <<>> THEN Join(<<", ">>, common)
                 ELSE <<"different ingredients">>)
             \o <<". ">> \o product_a.name \o <<" is more affordable at ">>
             \o product_a.price \o <<" compared to ">> \o b.price \o <<".">>
       ])

-----------------------------------------------------------------------------
(* WriterAgent *)

\* the cap of the FAQ selection
FaqCap == 5

\* below this many selected questions the first loop accepts any category
DiversityFloor == 3

\* the test of the first loop's if statement
FirstLoopAccepts(sel, seen, q) == q.category \notin seen \/ Len(sel) < DiversityFloor

\* `q in sel`: list membership by ==, which pydantic defines field by field
InList(q, sel) == \E k \in 1..Len(sel) : sel[k] = q

\* the test of the while statement
BackfillNeeded(sel, qs) == Len(sel) < FaqCap /\ Len(sel) < Len(qs)

FAQPageModel(p, sel) ==
    [page_type |-> "faq", product_name |-> p.name, questions |-> sel,
     total_questions |-> Len(sel)]

\* selected_questions after the first for loop, run from index i
RECURSIVE FirstLoop(_, _, _, _)
FirstLoop(qs, i, sel, seen) ==
    IF i > Len(qs) \/ Len(sel) >= FaqCap THEN sel
    ELSE IF FirstLoopAccepts(sel, seen, qs[i])
         THEN FirstLoop(qs, i + 1, Append(sel, qs[i]), seen \cup {qs[i].category})
         ELSE FirstLoop(qs, i + 1, sel, seen)

\* selected_questions after one pass of the inner for loop, run from index j
RECURSIVE BackfillPass(_, _, _)
BackfillPass(qs, j, sel) ==
    IF j > Len(qs) THEN sel
    ELSE IF ~InList(qs[j], sel)
         THEN IF Len(sel) + 1 >= FaqCap THEN Append(sel, qs[j])
              ELSE BackfillPass(qs, j + 1, Append(sel, qs[j]))
         ELSE BackfillPass(qs, j + 1, sel)

\* selected_questions after the while loop; None when the loop never ends (a
\* pass that appends nothing leaves the while test true for ever)
RECURSIVE Backfill(_, _)
Backfill(qs, sel) ==
    IF ~BackfillNeeded(sel, qs) THEN Some(sel)
    ELSE IF BackfillPass(qs, 1, sel) = sel THEN None
    ELSE Backfill(qs, BackfillPass(qs, 1, sel))

\* the value assemble_faq_page returns; None when it does not return
WriterAgent_assemble_faq_page(p, qs) ==
    LET sel == Backfill(qs, FirstLoop(qs, 1, <<>>, {}))
    IN IF sel = None THEN None ELSE Some(FAQPageModel(p, sel[1]))

WriterAgent_assemble_product_page(p) ==
    [page_type          |-> "product_page",
     product_name       |-> p.name,
     concentration      |-> p.concentration,
     price              |-> p.price,
     benefits           |-> ContentBlocks_generate_benefits_block(p),
     usage_instructions |-> ContentBlocks_extract_usage_block(p),
     safety_info        |-> ContentBlocks_generate_safety_block(p),
     key_ingredients    |-> p.key_ingredients]

WriterAgent_assemble_comparison_page(a, b, table, summary) ==
    [page_type |-> "comparison", product_a |-> a, product_b |-> b,
     comparison_table |-> table, summary |-> summary]

(* assemble_faq_page statement by statement *)

\* one iteration of `for question in questions`, its break included
FaqFirstLoopStep ==
    /\ faq_pc = "first_loop"
    /\ IF faq_i > Len(faq_questions) \/ Len(selected_questions) >= FaqCap
       THEN /\ faq_pc' = "while_test"
            /\ UNCHANGED <<selected_questions, categories_seen, faq_i>>
       ELSE /\ IF FirstLoopAccepts(selected_questions, categories_seen,
                                   faq_questions[faq_i])
               THEN /\ selected_questions' =
                           Append(selected_questions, faq_questions[faq_i])
                    /\ categories_seen' =
                           categories_seen \cup {faq_questions[faq_i].category}
               ELSE UNCHANGED <<selected_questions, categories_seen>>
            /\ faq_i' = faq_i + 1
            /\ faq_pc' = "first_loop"
    /\ UNCHANGED <<faq_questions, faq_product, faq_page, pipeline_vars, cmp_vars, unit_vars>>

\* the test of `while ...`; when it fails the page is built and returned
FaqWhileTest ==
    /\ faq_pc = "while_test"
    /\ IF BackfillNeeded(selected_questions, faq_questions)
       THEN /\ faq_pc' = "backfill"
            /\ faq_i' = 1
            /\ UNCHANGED faq_page
       ELSE /\ faq_pc' = "done"
            /\ faq_page' = Some(FAQPageModel(faq_product[1], selected_questions))
            /\ UNCHANGED faq_i
    /\ UNCHANGED <<faq_questions, faq_product, selected_questions, categories_seen,
                   pipeline_vars, cmp_vars, unit_vars>>

\* one iteration of `for q in questions`, its break included
FaqBackfillStep ==
    /\ faq_pc = "backfill"
    /\ IF faq_i > Len(faq_questions)
       THEN /\ faq_pc' = "while_test"
            /\ UNCHANGED <<selected_questions, faq_i>>
       ELSE IF ~InList(faq_questions[faq_i], selected_questions)
            THEN /\ selected_questions' =
                        Append(selected_questions, faq_questions[faq_i])
                 /\ faq_pc' = IF Len(selected_questions) + 1 >= FaqCap
                              THEN "while_test" ELSE "backfill"
                 /\ faq_i' = faq_i + 1
            ELSE /\ faq_i' = faq_i + 1
                 /\ faq_pc' = "backfill"
                 /\ UNCHANGED selected_questions
    /\ UNCHANGED <<faq_questions, faq_product, categories_seen, faq_page,
                   pipeline_vars, cmp_vars, unit_vars>>

-----------------------------------------------------------------------------
(* WorkflowOrchestrator *)

WorkflowState ==
    {"initialized", "parsed", "questions_generated", "comparison_generated",
     "faq_assembled", "product_page_assembled", "comparison_page_assembled",
     "completed", "failed"}

NoOutputs == [faq |-> None, product_page |-> None, comparison |-> None]

\* the orchestrator after __init__, no call made
WorkflowOrchestrator_init ==
    /\ state = "initialized"
    /\ pc = "idle"
    /\ raw_data = None
    /\ product = None
    /\ questions = None
    /\ product_b = None
    /\ comparison_table = None
    /\ comparison_summary = None
    /\ outputs = NoOutputs
    /\ outcome = [kind |-> "none", error |-> NoError]
    /\ history = <<>>
    /\ runs = 0

\* _transition_state(new_state)
TransitionState(new_state) ==
    /\ state' = new_state
    /\ history' = Append(history, new_state)

\* a handler that raises a new exception in place of the one it caught
ExceptHandler_wrapping(e) ==
    /\ TransitionState("failed")
    /\ outcome' = [kind |-> "raised", error |-> [type |-> "PipelineError", arg |-> <<>>]]
    /\ pc' = "idle"
    /\ raw_data' = None
    /\ UNCHANGED <<product, questions, product_b, comparison_table,
                   comparison_summary, outputs>>

\* a handler that clears the run data before it re-raises
ExceptHandler_rollback(e) ==
    /\ TransitionState("failed")
    /\ outcome' = [kind |-> "raised", error |-> e]
    /\ pc' = "idle"
    /\ raw_data' = None
    /\ product' = None
    /\ questions' = None
    /\ UNCHANGED <<product_b, comparison_table, comparison_summary, outputs>>

\* the except clause: record Failed, re-raise the exception it caught
ExceptHandler(e) ==
    /\ TransitionState("failed")
    /\ outcome' = [kind |-> "raised", error |-> e]
    /\ pc' = "idle"
    /\ raw_data' = None
    /\ UNCHANGED <<product, questions, product_b, comparison_table,
                   comparison_summary, outputs>>

\* a caller invokes execute_pipeline(raw); the method has no guard on self.state
Invoke(raw) ==
    /\ pc = "idle"
    /\ runs < MaxRuns
    /\ pc' = "parse"
    /\ raw_data' = Some(raw)
    /\ runs' = runs + 1
    /\ outcome' = [kind |-> "none", error |-> NoError]
    /\ history' = <<state>>
    /\ UNCHANGED <<state, product, questions, product_b, comparison_table,
                   comparison_summary, outputs, faq_vars, cmp_vars, unit_vars>>

\* the next step of the try block of execute_pipeline: the stage at pc runs and
\* either its result is stored and the state advanced, or the exception it
\* raises reaches the except clause
ExecuteStage ==
    /\ pc # "idle"
    /\ UNCHANGED <<runs, faq_vars, cmp_vars, unit_vars>>
    /\ CASE pc = "parse" ->
              LET r == ParserAgent_execute(raw_data[1])
              IN IF r.ok
                 THEN /\ product' = r.value
                      /\ TransitionState("parsed")
                      /\ pc' = "questions"
                      /\ UNCHANGED <<questions, product_b, comparison_table,
                                     comparison_summary, outputs, outcome, raw_data>>
                 ELSE ExceptHandler(r.error)
         [] pc = "questions" ->
              /\ questions' = Some(QuestionGeneratorAgent_execute(product[1]))
              /\ TransitionState("questions_generated")
              /\ pc' = "comparison"
              /\ UNCHANGED <<product, product_b, comparison_table,
                             comparison_summary, outputs, outcome, raw_data>>
         [] pc = "comparison" ->
              \E ic \in ContentBlocks_compare_ingredients_block(product[1],
                            ComparisonAgent_create_fictional_product_b(product[1])) :
                 LET r == ComparisonAgent_execute(product[1], ic)
                 IN IF r.ok
                    THEN /\ product_b' = Some(r.value[1].product_b)
                         /\ comparison_table' = Some(r.value[1].comparison_table)
                         /\ comparison_summary' = Some(r.value[1].summary)
                         /\ TransitionState("comparison_generated")
                         /\ pc' = "faq"
                         /\ UNCHANGED <<product, questions, outputs, outcome, raw_data>>
                    ELSE ExceptHandler(r.error)
         [] pc = "faq" ->
              /\ WriterAgent_assemble_faq_page(product[1], questions[1]) # None
              /\ outputs' = [outputs EXCEPT
                    !.faq = WriterAgent_assemble_faq_page(product[1], questions[1])]
              /\ TransitionState("faq_assembled")
              /\ pc' = "product_page"
              /\ UNCHANGED <<product, questions, product_b, comparison_table,
                             comparison_summary, outcome, raw_data>>
         [] pc = "product_page" ->
              /\ outputs' = [outputs EXCEPT
                    !.product_page = Some(WriterAgent_assemble_product_page(product[1]))]
              /\ TransitionState("product_page_assembled")
              /\ pc' = "comparison_page"
              /\ UNCHANGED <<product, questions, product_b, comparison_table,
                             comparison_summary, outcome, raw_data>>
         [] pc = "comparison_page" ->
              /\ outputs' = [outputs EXCEPT
                    !.comparison = Some(WriterAgent_assemble_comparison_page(
                        product[1], product_b[1], comparison_table[1],
                        comparison_summary[1]))]
              /\ TransitionState("comparison_page_assembled")
              /\ pc' = "complete"
              /\ UNCHANGED <<product, questions, product_b, comparison_table,
                             comparison_summary, outcome, raw_data>>
         [] pc = "complete" ->
              /\ TransitionState("completed")
              /\ outcome' = [kind |-> "returned", error |-> NoError]
              /\ pc' = "idle"
              /\ raw_data' = None
              /\ UNCHANGED <<product, questions, product_b, comparison_table,
                             comparison_summary, outputs>>

\* a status that derives questions_generated from the product
WorkflowOrchestrator_get_pipeline_status_derived ==
    [current_state        |-> state,
     product_parsed       |-> product # None,
     questions_generated  |-> product # None,
     comparison_generated |-> product_b # None,
     outputs_ready        |-> [faq          |-> outputs.faq # None,
                               product_page |-> outputs.product_page # None,
                               comparison   |-> outputs.comparison # None]]

WorkflowOrchestrator_get_pipeline_status ==
    [current_state        |-> state,
     product_parsed       |-> product # None,
     questions_generated  |-> questions # None,
     comparison_generated |-> product_b # None,
     outputs_ready        |-> [faq          |-> outputs.faq # None,
                               product_page |-> outputs.product_page # None,
                               comparison   |-> outputs.comparison # None]]

\* a caller invokes ComparisonAgent.execute(product_a) directly
CompareCall ==
    /\ cmp_product_a # None
    /\ cmp_result = None
    /\ \E ic \in ContentBlocks_compare_ingredients_block(cmp_product_a[1],
                    ComparisonAgent_create_fictional_product_b(cmp_product_a[1])) :
          cmp_result' = Some(ComparisonAgent_execute(cmp_product_a[1], ic))
    /\ UNCHANGED <<cmp_product_a, pipeline_vars, faq_vars, unit_vars>>

\* a caller invokes ParserAgent.execute(raw_data) directly
ParseCall ==
    /\ parse_raw # None
    /\ parse_result = None
    /\ parse_result' = Some(ParserAgent_execute(parse_raw[1]))
    /\ UNCHANGED <<parse_raw, gen_questions, usage_block,
                   pipeline_vars, faq_vars, cmp_vars>>

\* the product it returned is given to QuestionGeneratorAgent.execute
GenerateQuestionsCall ==
    /\ parse_result # None
    /\ parse_result[1].ok
    /\ gen_questions = None
    /\ gen_questions' = Some(QuestionGeneratorAgent_execute(parse_result[1].value[1]))
    /\ UNCHANGED <<parse_raw, parse_result, usage_block,
                   pipeline_vars, faq_vars, cmp_vars>>

\* the product it returned is given to ContentBlocks.extract_usage_block
ExtractUsageCall ==
    /\ parse_result # None
    /\ parse_result[1].ok
    /\ usage_block = None
    /\ usage_block' = Some(ContentBlocks_extract_usage_block(parse_result[1].value[1]))
    /\ UNCHANGED <<parse_raw, parse_result, gen_questions,
                   pipeline_vars, faq_vars, cmp_vars>>

-----------------------------------------------------------------------------
(* The inputs the model is run on *)

\* all sequences over S of length at most n
SeqsUpTo(S, n) == UNION {[1..k -> S] : k \in 0..n}

T_Zinc == <<"Z", "i", "n", "c">>

T_VitaminC == <<"V", "i", "t", "a", "m", "i", "n", " ", "C">>

T_Niacinamide == <<"N", "i", "a", "c", "i", "n", "a", "m", "i", "d", "e">>

SkinTypeInputs ==
    {RawStr(<<"O", "i", "l", "y", ",", " ", "D", "r", "y">>),
     RawList(<< <<"O", "i", "l", "y">>, <<"D", "r", "y">> >>)}

PriceInputs ==
    {<<"U+20B9", "6", "9", "9">>, <<"U+20B9", "9", "9", "9">>, <<"U+20B9">>, <<>>}

FullRecords ==
    {[name            |-> <<"G", "l", "o", "w">>,
      concentration   |-> <<"1", "0", "%", " ", "C">>,
      skin_type       |-> st,
      key_ingredients |-> RawStr(<<"V", "i", "t", "a", "m", "i", "n", " ", "C", ",", " ", "Z", "i", "n", "c">>),
      benefits        |-> RawList(<< <<"B", "r", "i", "g", "h", "t", "e", "n", "i", "n", "g">> >>),
      how_to_use      |-> <<"A", "p", "p", "l", "y", " ", "2", "-", "3", " ", "d", "r", "o", "p", "s">>,
      side_effects    |-> <<"M", "i", "l", "d", " ", "t", "i", "n", "g", "l", "i", "n", "g">>,
      price           |-> pr] : st \in SkinTypeInputs, pr \in PriceInputs}

MissingSets == {m \in SUBSET RequiredKeys : Cardinality(m) <= MaxMissing}

\* raw records: a full record with the keys of a missing set removed
RawRecords ==
    {[k \in RequiredKeys \ m |-> full[k]] : full \in FullRecords, m \in MissingSets}

PriceAlphabet == {"U+20B9", "0", "8", "9", "U+00B9"}

ProductWith(ingredients, pr) ==
    [name            |-> <<"G", "l", "o", "w">>,
     concentration   |-> <<"1", "0", "%", " ", "C">>,
     skin_type       |-> << <<"O", "i", "l", "y">>, <<"D", "r", "y">> >>,
     key_ingredients |-> ingredients,
     benefits        |-> << <<"B", "r", "i", "g", "h", "t", "e", "n", "i", "n", "g">> >>,
     how_to_use      |-> <<"A", "p", "p", "l", "y", " ", "2", "-", "3", " ", "d", "r", "o", "p", "s">>,
     side_effects    |-> <<"M", "i", "l", "d", " ", "t", "i", "n", "g", "l", "i", "n", "g">>,
     price           |-> pr]

\* the products given to a direct ComparisonAgent.execute call
CompareInputs ==
    {ProductWith(ing, pr) : ing \in {<<T_VitaminC, T_Zinc>>, <<T_VitaminC>>,
                                     <<T_Zinc, T_Niacinamide, T_Zinc>>},
                            pr \in SeqsUpTo(PriceAlphabet, MaxPriceLen)}

FaqProduct == ProductWith(<<T_VitaminC, T_Zinc>>, <<"U+20B9", "6", "9", "9">>)

QuestionPool ==
    {QuestionModel(<<"q1">>, <<"a1">>, "Informational"),
     QuestionModel(<<"q2">>, <<"a2">>, "Informational"),
     QuestionModel(<<"q3">>, <<"a3">>, "Informational"),
     QuestionModel(<<"q4">>, <<"a4">>, "Usage"),
     QuestionModel(<<"q5">>, <<"a5">>, "Safety")}

\* the catalogs given to a direct assemble_faq_page call: every short catalog
\* over the pool, and the catalog the question agent generates
Catalogs ==
    SeqsUpTo(QuestionPool, MaxCatalog) \cup {QuestionGeneratorAgent_execute(FaqProduct)}

\* the raw values of a multi-value field given to a direct ParserAgent.execute
\* call: comma-delimited strings and lists, the empty ones included
ListFieldInputs ==
    {RawStr(t) : t \in SeqsUpTo({"a", ",", " "}, MaxRawLen)}
      \cup {RawList(l) : l \in SeqsUpTo({<<"O", "i", "l", "y">>, <<" ", "D", "r", "y">>},
                                        MaxItems)}

InstructionWords ==
    {<<"2", "-", "3">>, <<"2", "U+2013", "3">>, <<"2">>, <<"f", "e", "w">>,
     <<"d", "r", "o", "p", "s">>}

\* usage instructions: words separated by one space
Instructions == {Join(<<" ">>, ws) : ws \in SeqsUpTo(InstructionWords, MaxWords)}

BaseRecord ==
    [name            |-> <<"G", "l", "o", "w">>,
     concentration   |-> <<"1", "0", "%", " ", "C">>,
     skin_type       |-> RawStr(<<"O", "i", "l", "y", ",", " ", "D", "r", "y">>),
     key_ingredients |-> RawStr(<<"V", "i", "t", "a", "m", "i", "n", " ", "C", ",", " ", "Z", "i", "n", "c">>),
     benefits        |-> RawList(<< <<"B", "r", "i", "g", "h", "t", "e", "n", "i", "n", "g">> >>),
     how_to_use      |-> <<"A", "p", "p", "l", "y", " ", "2", "-", "3", " ", "d", "r", "o", "p", "s">>,
     side_effects    |-> <<"M", "i", "l", "d", " ", "t", "i", "n", "g", "l", "i", "n", "g">>,
     price           |-> <<"U+20B9", "6", "9", "9">>]

\* the raw records given to a direct ParserAgent.execute call
UnitRecords ==
    {[BaseRecord EXCEPT ![f] = v] :
         f \in {"skin_type", "key_ingredients", "benefits"}, v \in ListFieldInputs}
      \cup {[BaseRecord EXCEPT !["how_to_use"] = t] : t \in Instructions}
      \cup {[BaseRecord EXCEPT !["side_effects"] = <<>>]}
      \cup {[k \in RequiredKeys \ m |-> BaseRecord[k]] : m \in MissingSets}

-----------------------------------------------------------------------------
(* Specifications *)

FaqIdle ==
    /\ faq_pc = "idle"
    /\ faq_questions = <<>>
    /\ faq_product = None
    /\ selected_questions = <<>>
    /\ categories_seen = {}
    /\ faq_i = 0
    /\ faq_page = None

CmpIdle ==
    /\ cmp_product_a = None
    /\ cmp_result = None

UnitIdle ==
    /\ parse_raw = None
    /\ parse_result = None
    /\ gen_questions = None
    /\ usage_block = None

\* one orchestrator instance and its callers
Init == WorkflowOrchestrator_init /\ FaqIdle /\ CmpIdle /\ UnitIdle

Next ==
    \/ \E raw \in RawRecords : Invoke(raw)
    \/ ExecuteStage

Spec == Init /\ [][Next]_vars

\* one direct call of WriterAgent.assemble_faq_page(FaqProduct, catalog)
InitFaq ==
    /\ WorkflowOrchestrator_init
    /\ CmpIdle
    /\ UnitIdle
    /\ faq_pc = "first_loop"
    /\ faq_questions \in Catalogs
    /\ faq_product = Some(FaqProduct)
    /\ selected_questions = <<>>
    /\ categories_seen = {}
    /\ faq_i = 1
    /\ faq_page = None

NextFaq ==
    \/ FaqFirstLoopStep
    \/ FaqWhileTest
    \/ FaqBackfillStep

SpecFaq == InitFaq /\ [][NextFaq]_vars

\* the same call, which executes its next statement as long as it has one
SpecFaqLive == SpecFaq /\ WF_vars(NextFaq)

\* one direct call of ComparisonAgent.execute(product_a)
InitCompare ==
    /\ WorkflowOrchestrator_init
    /\ FaqIdle
    /\ UnitIdle
    /\ cmp_product_a \in {Some(a) : a \in CompareInputs}
    /\ cmp_result = None

NextCompare == CompareCall

SpecCompare == InitCompare /\ [][NextCompare]_vars

\* one direct call of ParserAgent.execute(raw), whose product is then given to
\* QuestionGeneratorAgent.execute and to ContentBlocks.extract_usage_block
InitUnits ==
    /\ WorkflowOrchestrator_init
    /\ FaqIdle
    /\ CmpIdle
    /\ parse_raw \in {Some(r) : r \in UnitRecords}
    /\ parse_result = None
    /\ gen_questions = None
    /\ usage_block = None

NextUnits ==
    \/ ParseCall
    \/ GenerateQuestionsCall
    \/ ExtractUsageCall

SpecUnits == InitUnits /\ [][NextUnits]_vars

-----------------------------------------------------------------------------
(* Properties *)

\* the result of the stage at pc on the orchestrator's present data: what it
\* returns or the exception it raises (the stages after the comparison raise
\* nothing)
StageResult ==
    CASE pc = "parse" -> ParserAgent_execute(raw_data[1])
      [] pc = "comparison" ->
           ComparisonAgent_execute(product[1],
               CHOOSE ic \in ContentBlocks_compare_ingredients_block(product[1],
                   ComparisonAgent_create_fictional_product_b(product[1])) : TRUE)
      [] OTHER -> Ok(TRUE)

StageFails == pc # "idle" /\ ~StageResult.ok

PipelineOrder ==
    <<"initialized", "parsed", "questions_generated", "comparison_generated",
      "faq_assembled", "product_page_assembled", "comparison_page_assembled",
      "completed">>

\* int() accepts the digits of the price string t
PriceParsable(t) ==
    /\ \E i \in 1..Len(t) : IsDigit(t[i])
    /\ \A i \in 1..Len(t) : IsDigit(t[i]) => t[i] \in DecimalDigits

FirstRunOver == pc = "idle" /\ runs = 1

\* ComparisonAgent.execute raises for every product A: when A's price parses,
\* the price of Product B does not
ComparatorAlwaysRaises == cmp_result # None => ~cmp_result[1].ok

\* the orchestrator never gets past the comparison stage
NeverPastComparison ==
    state \in {"initialized", "parsed", "questions_generated", "failed"}

\* the statement-by-statement run of assemble_faq_page returns what the
\* operator WriterAgent_assemble_faq_page gives
StepwiseFaqAgrees ==
    faq_pc = "done" =>
        faq_page = WriterAgent_assemble_faq_page(faq_product[1], faq_questions)

C2_FailurePropagates_Step ==
    StageFails =>
       /\ state' = "failed"
       /\ outcome' = [kind |-> "raised", error |-> StageResult.error]

\* C2: when the stage being executed raises, the next state is Failed and the
\* caller of execute_pipeline receives that same exception.
C2_FailurePropagates == [][C2_FailurePropagates_Step]_vars

C2_Witness ==
    /\ state = "failed"
    /\ history = <<"initialized", "parsed", "questions_generated", "failed">>
    /\ outcome.kind = "raised"
    /\ outcome.error.type = "ValueError"

ReuseError == [type |-> "ReuseError", arg |-> <<>>]

C3_ReuseIsRejected_Step ==
    state \in {"completed", "failed"} =>
       /\ state' = state
       /\ runs' # runs =>
             /\ pc' = "idle"
             /\ outcome' = [kind |-> "raised", error |-> ReuseError]

\* C3: a call of execute_pipeline on an instance whose state is Completed or
\* Failed fails with ReuseError, runs no stage, and leaves the state as it is;
\* a terminal state is never left.
C3_ReuseIsRejected == [][C3_ReuseIsRejected_Step]_vars

C4_FailFastNoRollback_Step ==
    /\ StageFails =>
          /\ pc' = "idle"
          /\ outcome'.kind = "raised"
          /\ <<product, questions, product_b, comparison_table,
               comparison_summary, outputs>>' =
             <<product, questions, product_b, comparison_table,
               comparison_summary, outputs>>
    /\ (pc = "idle" /\ outcome.kind = "raised") =>
          /\ pc' = "idle" \/ runs' = runs + 1
          /\ <<product, questions, product_b, comparison_table,
               comparison_summary, outputs>>' =
             <<product, questions, product_b, comparison_table,
               comparison_summary, outputs>>

\* C4: when a stage fails the call ends there: no later stage runs and none is
\* retried (the call is over and only a new call starts a stage), the data and
\* artifacts stored before the failure stay exactly as they were, and the
\* caller gets an exception, never the output mapping.
C4_FailFastNoRollback == [][C4_FailFastNoRollback_Step]_vars

C4_Witness ==
    /\ FirstRunOver
    /\ state = "failed"
    /\ outcome.kind = "raised"
    /\ product # None
    /\ questions # None
    /\ outputs = NoOutputs

C5_MissingKeyFails_Step ==
    (pc = "parse" /\ runs = 1 /\ RequiredKeys \ DOMAIN raw_data[1] # {}) =>
       /\ outcome'.kind = "raised"
       /\ outcome'.error.type = "KeyError"
       /\ Len(outcome'.error.arg) = 1
       /\ outcome'.error.arg[1] \in RequiredKeys \ DOMAIN raw_data[1]
       /\ WorkflowOrchestrator_get_pipeline_status' =
             [current_state        |-> "failed",
              product_parsed       |-> FALSE,
              questions_generated  |-> FALSE,
              comparison_generated |-> FALSE,
              outputs_ready        |-> [faq |-> FALSE, product_page |-> FALSE,
                                        comparison |-> FALSE]]

\* C5: on a fresh orchestrator a raw record that lacks a required key makes
\* execute_pipeline raise KeyError (the MissingFieldError of the design) naming
\* a key the record lacks, which is that key when it lacks one key only; the
\* status then reports Failed, product_parsed false, no artifact ready.
C5_MissingKeyFails == [][C5_MissingKeyFails_Step]_vars

C5_Witness ==
    /\ FirstRunOver
    /\ outcome = [kind |-> "raised", error |-> KeyError("price")]
    /\ WorkflowOrchestrator_get_pipeline_status.current_state = "failed"
    /\ ~WorkflowOrchestrator_get_pipeline_status.product_parsed

CategoriesOf(qs) == {qs[i].category : i \in 1..Len(qs)}

\* C6: for a catalog that spans at least 3 categories, the first 3 questions
\* selected into the FAQ belong to 3 distinct categories.
C6_FirstThreeDistinctCategories ==
    (faq_pc = "done" /\ Cardinality(CategoriesOf(faq_questions)) >= 3) =>
        /\ Len(selected_questions) >= 3
        /\ Cardinality(CategoriesOf(SubSeq(selected_questions, 1, 3))) = 3

Min(a, b) == IF a <= b THEN a ELSE b

\* C7: for a catalog of n entries the final selection holds exactly min(5, n)
\* questions, no question twice, and total_questions is its length.
C7_SelectionSizeNoDuplicates ==
    faq_pc = "done" =>
        /\ Len(selected_questions) = Min(5, Len(faq_questions))
        /\ \A i, j \in 1..Len(selected_questions) :
              i # j => selected_questions[i] # selected_questions[j]
        /\ faq_page[1].questions = selected_questions
        /\ faq_page[1].total_questions = Len(selected_questions)

\* the parsed numeric price of a price string, as step 2 of the Comparator
\* contract defines it: its decimal digits read as an integer
NumericPrice(t) == DecimalValue(SelectSeq(t, LAMBDA c : c \in DecimalDigits))

PriceOfB == ComparisonAgent_create_fictional_product_b(cmp_product_a[1]).price

\* C8: for every product A with a parsable price the Comparator returns a price
\* row whose winner is "Product A" exactly when A's parsed price is strictly
\* lower than B's, and "Product B" otherwise.
C8_PriceRowWinner ==
    (cmp_result # None /\ PriceParsable(cmp_product_a[1].price)) =>
        /\ cmp_result[1].ok
        /\ \E i \in 1..Len(cmp_result[1].value[1].comparison_table) :
              LET row == cmp_result[1].value[1].comparison_table[i]
              IN /\ row.attribute = "Price"
                 /\ row.winner =
                       IF NumericPrice(cmp_product_a[1].price) < NumericPrice(PriceOfB)
                       THEN Some("Product A") ELSE Some("Product B")

\* C9: for every product A with a parsable price the summary names as more
\* affordable the product that wins the price row.
C9_SummaryNamesPriceWinner ==
    (cmp_result # None /\ PriceParsable(cmp_product_a[1].price)) =>
        /\ cmp_result[1].ok
        /\ LET r == cmp_result[1].value[1]
               row == r.comparison_table[Len(r.comparison_table)]
               winner_name == IF row.winner = Some("Product A")
                              THEN cmp_product_a[1].name ELSE r.product_b.name
           IN Contains(r.summary, <<". ">> \o winner_name \o <<" is more affordable at ">>)

\* C10: on a fresh orchestrator, when the price string of product A holds no
\* digit the run fails at the comparison step with ValueError for the empty
\* literal (the PriceParseError of the design): Parsed and QuestionsGenerated
\* were reached, the state ends Failed, the product and the questions are
\* present, there is no counterpart product and no artifact.
C10_NoDigitPriceFailsAtComparison ==
    (FirstRunOver /\ product # None
       /\ \A i \in 1..Len(product[1].price) : ~IsDigit(product[1].price[i])) =>
        /\ outcome = [kind |-> "raised", error |-> ValueError(<<>>)]
        /\ history = <<"initialized", "parsed", "questions_generated", "failed">>
        /\ state = "failed"
        /\ questions # None
        /\ product_b = None
        /\ comparison_table = None
        /\ outputs = NoOutputs

C10_Witness ==
    /\ FirstRunOver
    /\ product # None
    /\ product[1].price = <<"U+20B9">>
    /\ outcome.error = ValueError(<<>>)

\* C11: for every product the question generator returns at least 15
\* questions, and the categories occurring among them are exactly the six
\* values of QuestionCategory.
C11_QuestionsCoverAllCategories ==
    gen_questions # None =>
        /\ Len(gen_questions[1]) >= 15
        /\ CategoriesOf(gen_questions[1]) = QuestionCategory

C11_Witness ==
    /\ gen_questions # None
    /\ parse_result[1].value[1].skin_type = <<>>
    /\ Len(gen_questions[1]) = 16

\* C12: for every product the parser returns for a raw record that has all
\* required keys, every question the generator returns has a non-empty answer.
C12_AnswersNonEmpty ==
    gen_questions # None =>
        \A i \in 1..Len(gen_questions[1]) : gen_questions[1][i].answer # <<>>

ListFields == {"skin_type", "key_ingredients", "benefits"}

CountOf(t, c) == Cardinality({i \in 1..Len(t) : t[i] = c})

Trimmed(t) == t = <<>> \/ (~IsSpace(t[1]) /\ ~IsSpace(t[Len(t)]))

\* C16: for every raw record that has all required keys, each list field of
\* the product is a non-empty sequence: for a comma-delimited string its
\* pieces between the commas, in order, each trimmed; for a list the list
\* itself.
C16_ListFieldsNonEmpty ==
    (parse_result # None /\ RequiredKeys \subseteq DOMAIN parse_raw[1]) =>
        /\ parse_result[1].ok
        /\ \A f \in ListFields :
              LET v == parse_raw[1][f]
                  l == parse_result[1].value[1][f]
              IN /\ l # <<>>
                 /\ v.kind = "list" => l = v.items
                 /\ v.kind = "str" =>
                       /\ Len(l) = CountOf(v.text, ",") + 1
                       /\ \A i \in 1..Len(l) : Trimmed(l[i])
                       /\ SelectSeq(Join(<<",">>, l), LAMBDA c : ~IsSpace(c))
                            = SelectSeq(v.text, LAMBDA c : ~IsSpace(c))

\* a word that starts with digits, alone or followed by a dash
LeadingNumeric(w) == StrIsDigit(BeforeFirstHyphen(ReplaceDashes(w)))

\* the first word with a leading numeric/dash pattern that stands immediately
\* before the word "drops"; None when the instruction has none
TokenBeforeDrops(t) ==
    LET ws == SplitWhitespace(t)
        at == {i \in 1..(Len(ws) - 1) :
                  LeadingNumeric(ws[i]) /\ Lower(ws[i + 1]) = <<"d", "r", "o", "p", "s">>}
    IN IF at = {} THEN None
       ELSE Some(ws[CHOOSE i \in at : \A j \in at : i <= j])

\* C17: the application method of the usage structure is "Apply <token> drops"
\* with <token> the word with a leading numeric/dash pattern immediately
\* before the word "drops", and "Topical application" when the instruction has
\* no such word before "drops", numeric words elsewhere in the text included.
C17_ApplicationMethod ==
    usage_block # None =>
        LET token == TokenBeforeDrops(usage_block[1].instruction)
        IN usage_block[1].application_method =
              IF token = None THEN <<"Topical application">>
              ELSE <<"Apply ">> \o token[1] \o <<" drops">>

\* the attributes the comparison rows cover, in order: name, active
\* ingredient/concentration, suitable skin types, key ingredients, common
\* ingredients, primary benefits, usage, side effects, price
RowOrder ==
    <<"Product Name", "Active Ingredient", "Suitable Skin Types", "Key Ingredients",
      "Common Ingredients", "Primary Benefits", "How to Use", "Side Effects", "Price">>

\* C13: for every product A with a parsable price the Comparator returns at
\* least 9 rows that cover the attributes of RowOrder in that order; the
\* side-effects row's winner is "Product B", the price row carries a winner,
\* every other row carries none.
C13_RowsAndWinners ==
    (cmp_result # None /\ PriceParsable(cmp_product_a[1].price)) =>
        /\ cmp_result[1].ok
        /\ LET table == cmp_result[1].value[1].comparison_table
           IN /\ Len(table) >= 9
              /\ \A i \in 1..Len(RowOrder) : table[i].attribute = RowOrder[i]
              /\ \A i \in 1..Len(table) :
                    CASE table[i].attribute = "Side Effects" ->
                           table[i].winner = Some("Product B")
                      [] table[i].attribute = "Price" ->
                           table[i].winner \in {Some("Product A"), Some("Product B")}
                      [] OTHER -> table[i].winner = None

\* the elements of list a that occur in list b, each once, in the order in
\* which they are met in a
RECURSIVE CommonInOrder(_, _, _)
CommonInOrder(a, b, seen) ==
    IF a = <<>> THEN <<>>
    ELSE IF InList(a[1], b) /\ a[1] \notin seen
         THEN <<a[1]>> \o CommonInOrder(Tail(a), b, seen \cup {a[1]})
         ELSE CommonInOrder(Tail(a), b, seen)

\* C14: the common-ingredients row shows on both sides the ingredients that
\* occur in both key-ingredient lists, each once, in the order in which they
\* are met, and "None" on both sides when A and B share no ingredient.
C14_CommonIngredientsRow ==
    (cmp_result # None /\ PriceParsable(cmp_product_a[1].price)) =>
        /\ cmp_result[1].ok
        /\ LET r == cmp_result[1].value[1]
               common == CommonInOrder(cmp_product_a[1].key_ingredients,
                                       r.product_b.key_ingredients, {})
               shown == IF common = <<>> THEN <<"None">> ELSE Join(<<", ">>, common)
           IN \E i \in 1..Len(r.comparison_table) :
                 /\ r.comparison_table[i].attribute = "Common Ingredients"
                 /\ r.comparison_table[i].product_a_value = shown
                 /\ r.comparison_table[i].product_b_value = shown

\* C15: a call of the Comparator returns Product B, rows and a summary, every
\* other call with the same product A returns the same three, and Product B
\* is the same record for every product A.
C15_ComparatorIdempotent ==
    (cmp_result # None /\ PriceParsable(cmp_product_a[1].price)) =>
        /\ cmp_result[1].ok
        /\ \A ic \in ContentBlocks_compare_ingredients_block(cmp_product_a[1],
                       ComparisonAgent_create_fictional_product_b(cmp_product_a[1])) :
              ComparisonAgent_execute(cmp_product_a[1], ic) = cmp_result[1]
        /\ \A a \in CompareInputs :
              ComparisonAgent_create_fictional_product_b(a) =
                 cmp_result[1].value[1].product_b

\* C18: the FAQ selection terminates for every finite catalog, those with
\* fewer than 5 entries and those with equal entries included: every call of
\* assemble_faq_page returns.
C18_FaqSelectionTerminates == <>(faq_pc = "done")

\* the stage that ends with the transition to state s has completed in the
\* latest call
StageCompleted(s) == InList(s, history)

====
